---- MODULE Spec2Model ----
(***************************************************************************)
(* Model of Azure/go-armbalancer: a client-side connection balancer for    *)
(* Azure Resource Manager.  The repository holds two realizations of New:  *)
(*   - the fixed array of recyclableTransport slots behind the             *)
(*     hostScopedTransport router (armbalancer.go, lines 1-230), and       *)
(*   - the channel pool transportChannPool (transport_pool.go).            *)
(* A run of the model is a run of one realization, chosen at construction. *)
(*                                                                         *)
(* Strings are sequences of one-character strings.  Long literals of the   *)
(* source are abbreviated: "management.azure.com" is <<"m">>, "443" is     *)
(* <<"4">>, the header prefix "X-Ms-Ratelimit-Remaining-" is <<"R","-">>.  *)
(***************************************************************************)
EXTENDS Integers, Sequences, FiniteSets, TLC

(* ------------------------------ bounds -------------------------------- *)
\* number of concurrent callers of RoundTrip
NumThreads == 2
\* number of requests the callers dispatch to the pool in one run
MaxRequests == 3

(* --------------------------- configuration ---------------------------- *)
\* Options.PoolSize of the modelled pool
PoolSize == 2
\* Options.RecycleThreshold of the modelled pool
RecycleThreshold == 5
\* Options.MinReqsBeforeRecycle of the modelled pool
MinReqsBeforeRecycle == 1

\* int64 is scaled to 16 bits (TLC's integers are 32 bits wide):
\* 32767 stands for math.MaxInt64 and 65536 for 2^64
MaxInt64 == 32767
Two64 == 65536

Nil == "nil"
\* a nil *http.Response; a response is <<header>>
NoResp == << >>

(* ------------------------------ strings ------------------------------- *)
Digits == {"0", "1", "2", "3", "4", "5", "6", "7", "8", "9"}

DigitVal(c) ==
    CASE c = "0" -> 0 [] c = "1" -> 1 [] c = "2" -> 2 [] c = "3" -> 3
      [] c = "4" -> 4 [] c = "5" -> 5 [] c = "6" -> 6 [] c = "7" -> 7
      [] c = "8" -> 8 [] c = "9" -> 9

\* strings.HasPrefix
HasPrefix(s, p) == Len(s) >= Len(p) /\ SubSeq(s, 1, Len(p)) = p

\* strings.Index(s, c) for a one-character c, 0-based, -1 when absent
Index(s, c) ==
    IF \E i \in 1..Len(s) : s[i] = c
    THEN (CHOOSE i \in 1..Len(s) : s[i] = c /\ \A j \in 1..(i - 1) : s[j] # c) - 1
    ELSE -1

\* strings.LastIndexByte(s, c), 0-based, -1 when absent
LastIndex(s, c) ==
    IF \E i \in 1..Len(s) : s[i] = c
    THEN (CHOOSE i \in 1..Len(s) : s[i] = c /\ \A j \in (i + 1)..Len(s) : s[j] # c) - 1
    ELSE -1

\* strings.ToLower on the letters of the model's alphabet
LowerChar(c) == CASE c = "H" -> "h" [] c = "G" -> "g" [] c = "M" -> "m" [] OTHER -> c

ToLower(s) == [i \in 1..Len(s) |-> LowerChar(s[i])]

\* Go slice s[from:to], 0-based, half open
Slice(s, from, to) == SubSeq(s, from + 1, to)

(* ------------------------- rate-limit tracker ------------------------- *)
rateLimitHeaderPrefix == <<"R", "-">>

\* strconv.ParseInt(s, 10, 0) succeeds: optional sign, then one or more digits
ParseIntOK(s) ==
    LET body == IF Len(s) > 0 /\ s[1] \in {"+", "-"} THEN Tail(s) ELSE s
    IN  /\ Len(body) > 0
        /\ \A i \in 1..Len(body) : body[i] \in Digits

RECURSIVE ParseUint(_)
ParseUint(s) ==
    IF Len(s) = 0 THEN 0
    ELSE 10 * ParseUint(SubSeq(s, 1, Len(s) - 1)) + DigitVal(s[Len(s)])

\* the value strconv.ParseInt returns when it succeeds
ParseInt(s) ==
    IF s[1] = "-" THEN 0 - ParseUint(Tail(s))
    ELSE IF s[1] = "+" THEN ParseUint(Tail(s))
    ELSE ParseUint(s)

\* mutant of ApplyHeader: the parse error is ignored and 0 is recorded
ApplyHeaderIgnoringErr(types, h) ==
    LET good == {k \in DOMAIN h : HasPrefix(k, rateLimitHeaderPrefix)}
        cat(k) == Slice(k, Len(rateLimitHeaderPrefix), Len(k))
        val(k) == IF ParseIntOK(h[k]) THEN ParseInt(h[k]) ELSE 0
    IN  [c \in (DOMAIN types) \cup {cat(k) : k \in good} |->
            IF \E k \in good : cat(k) = c
            THEN val(CHOOSE k \in good : cat(k) = c)
            ELSE types[c]]

\* connState.ApplyHeader: h maps a header name to its first value vals[0]
ApplyHeader(types, h) ==
    LET good == {k \in DOMAIN h : HasPrefix(k, rateLimitHeaderPrefix) /\ ParseIntOK(h[k])}
        cat(k) == Slice(k, Len(rateLimitHeaderPrefix), Len(k))
    IN  [c \in (DOMAIN types) \cup {cat(k) : k \in good} |->
            IF \E k \in good : cat(k) = c
            THEN ParseInt(h[CHOOSE k \in good : cat(k) = c])
            ELSE types[c]]

\* connState.Min
Min(types) ==
    IF \E c \in DOMAIN types : types[c] < MaxInt64
    THEN CHOOSE v \in {types[c] : c \in DOMAIN types} :
            \A c \in DOMAIN types : v <= types[c]
    ELSE MaxInt64

\* newConnState
newConnState == << >>

(* ------------------------- 64-bit arithmetic -------------------------- *)
\* atomic.AddInt64: two's complement wrap-around
AddInt64(x, d) ==
    LET y == (x + d + (Two64 \div 2)) % Two64 IN y - (Two64 \div 2)

\* Go's % on ints: the result has the sign of the dividend
GoMod(a, n) == IF a >= 0 THEN a % n ELSE 0 - ((0 - a) % n)

(* ------------------------------- URLs --------------------------------- *)
\* net/url validOptionalPort: "" or ":" followed by digits only
validOptionalPort(p) ==
    \/ Len(p) = 0
    \/ /\ p[1] = ":"
       /\ \A i \in 2..Len(p) : p[i] \in Digits

\* net/url splitHostPort, used by URL.Hostname and URL.Port
splitHostPort(hostPort) ==
    LET colon == LastIndex(hostPort, ":")
        cut   == colon # -1 /\ validOptionalPort(Slice(hostPort, colon, Len(hostPort)))
        host0 == IF cut THEN Slice(hostPort, 0, colon) ELSE hostPort
        port0 == IF cut THEN Slice(hostPort, colon + 1, Len(hostPort)) ELSE << >>
        host1 == IF Len(host0) >= 2 /\ host0[1] = "[" /\ host0[Len(host0)] = "]"
                 THEN Slice(host0, 1, Len(host0) - 1) ELSE host0
    IN  [host |-> host1, port |-> port0]

\* url.URL.Hostname
Hostname(u) == splitHostPort(u).host

\* url.URL.Port
Port(u) == splitHostPort(u).port

\* mutant of lookupKey: the key is not lower-cased
lookupKeyCaseSensitive(u) == Hostname(u) \o <<":">> \o Port(u)

\* hostScopedTransport.compareHosts: the key looked up in t.pool
lookupKey(u) == ToLower(Hostname(u) \o <<":">> \o Port(u))

\* hostScopedTransport.compareHosts: keys is the key set of t.pool
compareHosts(keys, u) ==
    IF lookupKey(u) \in keys
    THEN [pool |-> lookupKey(u), err |-> Nil]
    ELSE [pool |-> Nil, err |-> "not supported"]

(* ---------------------------- construction ---------------------------- *)
DefaultHost == <<"m">>
DefaultPort == <<"4">>

\* net.SplitHostPort: err is Nil on success
SplitHostPort(hostport) ==
    LET i    == LastIndex(hostport, ":")
        fail == [host |-> << >>, port |-> << >>, err |-> "address"]
    IN  IF i < 0 THEN fail
        ELSE IF hostport[1] = "["
        THEN LET end == Index(hostport, "]") IN
             IF end < 0 THEN fail
             ELSE IF end + 1 # i THEN fail
             ELSE IF Index(Slice(hostport, 1, Len(hostport)), "[") >= 0 THEN fail
             ELSE IF Index(Slice(hostport, end + 1, Len(hostport)), "]") >= 0 THEN fail
             ELSE [host |-> Slice(hostport, 1, end),
                   port |-> Slice(hostport, i + 1, Len(hostport)), err |-> Nil]
        ELSE IF Index(Slice(hostport, 0, i), ":") >= 0 THEN fail
        ELSE IF Index(hostport, "[") >= 0 THEN fail
        ELSE IF Index(hostport, "]") >= 0 THEN fail
        ELSE [host |-> Slice(hostport, 0, i),
              port |-> Slice(hostport, i + 1, Len(hostport)), err |-> Nil]

\* the destination string New splits: Options.Host after defaulting
defaultedHost(optsHost) ==
    LET h1 == IF optsHost = << >> THEN DefaultHost ELSE optsHost
    IN  IF Index(h1, ":") < 0 THEN h1 \o <<":">> \o DefaultPort ELSE h1

\* mutant of orDefault: an empty part is kept
orDefaultKept(part, default) == part

\* New lines 59-64: an empty host or port is replaced by its default
orDefault(part, default) == IF part = << >> THEN default ELSE part

\* New (armbalancer.go, router realization).  opts.TransportFactory is << >>
\* (nil) or <<the key set of the caller's factory map>>.  calls is the set of
\* factory calls; make() panics on a negative capacity.
New(opts) ==
    LET sp   == SplitHostPort(defaultedHost(opts.Host))
        host == orDefault(sp.host, DefaultHost)
        port == orDefault(sp.port, DefaultPort)
        size == IF opts.PoolSize = 0 THEN 8 ELSE opts.PoolSize
        thr  == IF opts.RecycleThreshold = 0 THEN 100 ELSE opts.RecycleThreshold
        minr == IF opts.MinReqsBeforeRecycle = 0 THEN 10 ELSE opts.MinReqsBeforeRecycle
        keys == IF opts.TransportFactory = << >>
                THEN {ToLower(host \o <<":">> \o port)}
                ELSE opts.TransportFactory[1]
    IN  IF sp.err # Nil
        THEN [panicked |-> TRUE, keys |-> {}, calls |-> {}]
        ELSE IF size < 0 /\ keys # {}
        THEN [panicked |-> TRUE, keys |-> {}, calls |-> {}]
        ELSE [panicked |-> FALSE,
              keys  |-> IF size > 0 THEN keys ELSE {},
              calls |-> {[key |-> k, id |-> i, host |-> host, port |-> port,
                          recycleThreshold |-> thr, minReqsBeforeRecycle |-> minr] :
                            k \in keys, i \in 0..(size - 1)}]

\* the options of the pool whose requests the model follows
PoolOptions ==
    [Host |-> <<"h", ":", "4">>, PoolSize |-> PoolSize,
     RecycleThreshold |-> RecycleThreshold,
     MinReqsBeforeRecycle |-> MinReqsBeforeRecycle, TransportFactory |-> << >>]

(* ------------------------------- state -------------------------------- *)
VARIABLES
    args,        \* the arguments of a call of one of the package's functions
    result,      \* << >> before that call returns, <<value>> after
    impl,        \* which realization of the package built the pool
    poolKeys,    \* hostScopedTransport.pool: the keys of the map
    lock,        \* recyclableTransport.lock, per slot: << >> or its holder
    cursor,      \* transportPool.cursor
    current,     \* recyclableTransport.current, per slot: a handle
    counter,     \* recyclableTransport.counter, per slot
    state,       \* recyclableTransport.state.types, per slot
    signal,      \* recyclableTransport.signal, per slot: elements buffered (0 or 1)
    recycler,    \* the slot's goroutine: [pc, previous, contended]; contended
                 \* records that requests held previous when it was swapped out
    status,      \* per handle: "free", "open" or "closed" (CloseIdleConnections called)
    activeCount, \* per handle: the counter of the WaitGroup created with it
    served,      \* per slot: requests whose tx.RoundTrip returned on the handle
                 \* that is the slot's current one
    chann,       \* the transportChannPool: its channels, WaitGroup and goroutines
    th           \* per caller: [pc, slot, tx, resp, err] of its RoundTrip call

slotVars == <<cursor, current, counter, state, signal, recycler>>
handleVars == <<status, activeCount, served>>
vars == <<args, result, impl, poolKeys, lock, cursor, current, counter, state, signal, recycler,
          status, activeCount, served, chann, th>>

Threads == 1..NumThreads
Slots == 0..(PoolSize - 1)
\* enough names for every handle that can be referenced at one time
Handles == 1..(2 * PoolSize + NumThreads + MaxRequests)

\* the request URL hosts the callers use
RequestHosts ==
    { <<"h", ":", "4">>, <<"H", ":", "4">>, <<"h">>, <<"h", ":", "5">>, <<"g", ":", "4">> }

\* the response headers the server sends
hLow  == (<<"R", "-", "t">> :> <<"1">>)
hHigh == (<<"R", "-", "t">> :> <<"9">>) @@ (<<"R", "-", "i">> :> <<"x">>)
ServerHeaders == {hLow, hHigh}

\* what tx.RoundTrip can return: a response with headers, or an error
TransportResults ==
    {[resp |-> <<h>>, err |-> Nil] : h \in ServerHeaders}
        \cup {[resp |-> NoResp, err |-> "transport error"]}

Holding == {"exec", "count", "apply", "signal", "dec"}

\* handles some goroutine, slot or channel still refers to, and the handles
\* the channel pool dropped without closing them
Referenced ==
    {current[s] : s \in Slots}
        \cup {recycler[s].previous : s \in {x \in Slots : recycler[x].pc \in {"wait", "close"}}}
        \cup {th[r].tx : r \in {x \in Threads :
                              th[x].pc \in Holding \cup {"cexec", "spawn", "done", "add"}}}
        \cup {chann.pool[i] : i \in 1..Len(chann.pool)}
        \cup {g.t : g \in chann.recycling}
        \cup chann.closing
        \cup (IF chann.run.pc = "send" THEN {chann.run.t} ELSE {})
        \cup {h \in Handles : status[h] = "dropped"}

\* tx.Clone(): a handle no one refers to
FreshHandle == CHOOSE h \in Handles \ Referenced : \A g \in Handles \ Referenced : h <= g

\* a caller's locals; got is what tx.RoundTrip handed back to this call,
\* ctxDone whether the context of its request has been cancelled
idleThread ==
    [pc |-> "idle", slot |-> 0, tx |-> 0, resp |-> NoResp, err |-> Nil, got |-> << >>,
     ctxDone |-> FALSE]
idleRecycler == [pc |-> "idle", previous |-> 0, contended |-> FALSE]

\* newtransportChannPool: empty channels, Run not called yet
newChann ==
    [capacity |-> 0, capacityClosed |-> FALSE, pool |-> << >>, poolClosed |-> FALSE,
     wg |-> 0, ctxDone |-> FALSE, run |-> [pc |-> "notStarted", t |-> 0],
     waiter |-> "none", closing |-> {}, recycling |-> {}, issued |-> 0,
     panicked |-> FALSE]

\* newRecyclableTransport for every slot of the pool New returns
InitSlots ==
    /\ chann = newChann
    /\ lock = [s \in Slots |-> << >>]
    /\ poolKeys = New(PoolOptions).keys
    /\ cursor = 0
    /\ current = [s \in Slots |-> s + 1]
    /\ counter = [s \in Slots |-> 0]
    /\ state = [s \in Slots |-> newConnState]
    /\ signal = [s \in Slots |-> 0]
    /\ recycler = [s \in Slots |-> idleRecycler]
    /\ status = [h \in Handles |-> IF h <= PoolSize THEN "open" ELSE "free"]
    /\ activeCount = [h \in Handles |-> 0]
    /\ served = [s \in Slots |-> 0]
    /\ th = [r \in Threads |-> idleThread]

noCall == [fn |-> "none"]

Init ==
    /\ impl = "slots"
    /\ args = noCall
    /\ result = << >>
    /\ InitSlots

(* ------------------- router and fixed-array pool ---------------------- *)
\* transportPool.RoundTrip: the slot index for the cursor value after the add
slotIndex(c) == GoMod(c, PoolSize)

\* mutant of HostScopedRoundTrip: the cursor advances before the key lookup
HostScopedRoundTripCounting(r) ==
    /\ impl = "slots"
    /\ th[r].pc = "idle"
    /\ cursor < MaxRequests
    /\ cursor' = AddInt64(cursor, 1)
    /\ \E u \in RequestHosts :
        LET found == compareHosts(poolKeys, u) IN
        \/ /\ found.err # Nil
           /\ th' = [th EXCEPT ![r] = [idleThread EXCEPT !.err = found.err]]
        \/ /\ found.err = Nil
           /\ th' = [th EXCEPT ![r] = [pc |-> "capture", slot |-> slotIndex(cursor'),
                                       tx |-> 0, resp |-> NoResp, err |-> Nil, got |-> << >>,
                                       ctxDone |-> FALSE]]
    /\ UNCHANGED <<args, result, impl, poolKeys, lock, chann, current, counter, state, signal, recycler>>
    /\ UNCHANGED handleVars

\* hostScopedTransport.RoundTrip and transportPool.RoundTrip, up to the call
\* of the slot's RoundTrip
HostScopedRoundTrip(r) ==
    /\ impl \in {"slots", "locked"}
    /\ th[r].pc = "idle"
    /\ \E u \in RequestHosts :
        LET found == compareHosts(poolKeys, u) IN
        \/ /\ found.err # Nil
           /\ th' = [th EXCEPT ![r] = [idleThread EXCEPT !.err = found.err]]
           /\ UNCHANGED cursor
        \/ /\ found.err = Nil
           /\ cursor < MaxRequests
           /\ cursor' = AddInt64(cursor, 1)
           /\ th' = [th EXCEPT ![r] = [pc |-> "capture", slot |-> slotIndex(cursor'),
                                       tx |-> 0, resp |-> NoResp, err |-> Nil, got |-> << >>,
                                       ctxDone |-> FALSE]]
    /\ UNCHANGED <<args, result, impl, poolKeys, lock, chann, current, counter, state, signal, recycler>>
    /\ UNCHANGED handleVars

(* ------------------------ recyclableTransport ------------------------- *)
\* RoundTrip lines 170-174: copy current and the WaitGroup, Add(1), under the
\* lock, as one step ("locked" takes the lock and releases it in two steps)
Capture(r) ==
    /\ impl = "slots"
    /\ th[r].pc = "capture"
    /\ LET tx == current[th[r].slot] IN
        /\ activeCount' = [activeCount EXCEPT ![tx] = @ + 1]
        /\ th' = [th EXCEPT ![r].pc = "exec", ![r].tx = tx]
    /\ UNCHANGED <<args, result, impl, poolKeys, lock, chann, status, served>>
    /\ UNCHANGED slotVars

\* RoundTrip line 182: tx.RoundTrip(req) returns
Exec(r) ==
    /\ th[r].pc = "exec"
    /\ \E res \in TransportResults :
        th' = [th EXCEPT ![r].pc = "count", ![r].resp = res.resp, ![r].err = res.err,
                         ![r].got = <<res>>]
    /\ served' = [served EXCEPT ![th[r].slot] =
                        IF th[r].tx = current[th[r].slot] THEN @ + 1 ELSE @]
    /\ UNCHANGED <<args, result, impl, poolKeys, lock, chann, status, activeCount>>
    /\ UNCHANGED slotVars

\* RoundTrip line 183: atomic.AddInt64(&t.counter, 1)
Count(r) ==
    /\ th[r].pc = "count"
    /\ counter' = [counter EXCEPT ![th[r].slot] = AddInt64(@, 1)]
    /\ th' = [th EXCEPT ![r].pc = IF th[r].resp # NoResp THEN "apply" ELSE "signal"]
    /\ UNCHANGED <<args, result, impl, poolKeys, lock, chann, cursor, current, state, signal, recycler>>
    /\ UNCHANGED handleVars

\* RoundTrip lines 185-187: t.state.ApplyHeader(resp.Header)
Apply(r) ==
    /\ th[r].pc = "apply"
    /\ state' = [state EXCEPT ![th[r].slot] = ApplyHeader(@, th[r].resp[1])]
    /\ th' = [th EXCEPT ![r].pc = "signal"]
    /\ UNCHANGED <<args, result, impl, poolKeys, lock, chann, cursor, current, counter, signal, recycler>>
    /\ UNCHANGED handleVars

\* mutant of PostSignal: nothing is posted while the recycler is busy
PostSignalUnlessBusy(r) ==
    /\ th[r].pc = "signal"
    /\ signal' = [signal EXCEPT ![th[r].slot] =
                        IF recycler[th[r].slot].pc = "idle" THEN 1 ELSE @]
    /\ th' = [th EXCEPT ![r].pc = "dec"]
    /\ UNCHANGED <<args, result, impl, poolKeys, lock, chann, cursor, current, counter, state, recycler>>
    /\ UNCHANGED handleVars

\* RoundTrip lines 189-192: the non-blocking send on t.signal (capacity 1)
PostSignal(r) ==
    /\ th[r].pc = "signal"
    /\ signal' = [signal EXCEPT ![th[r].slot] = 1]
    /\ th' = [th EXCEPT ![r].pc = "dec"]
    /\ UNCHANGED <<args, result, impl, poolKeys, lock, chann, cursor, current, counter, state, recycler>>
    /\ UNCHANGED handleVars

\* mutant of returns: a request whose handle was swapped out fails
returnsErrorAfterSwap(r) ==
    IF th[r].tx # current[th[r].slot]
    THEN [resp |-> NoResp, err |-> "recycled"]
    ELSE [resp |-> th[r].resp, err |-> th[r].err]

\* RoundTrip line 193: return resp, err
returns(r) == [resp |-> th[r].resp, err |-> th[r].err]

\* mutant of Release: the request returns without wg.Add(-1)
ReleaseWithoutDone(r) ==
    /\ impl # "locked"
    /\ th[r].pc = "dec"
    /\ th' = [th EXCEPT ![r] = idleThread]
    /\ UNCHANGED <<args, result, impl, poolKeys, lock, chann>>
    /\ UNCHANGED handleVars
    /\ UNCHANGED slotVars

\* RoundTrip lines 176-180 and 193: the deferred wg.Add(-1) under the lock, return
Release(r) ==
    /\ impl # "locked"
    /\ th[r].pc = "dec"
    /\ activeCount' = [activeCount EXCEPT ![th[r].tx] = @ - 1]
    /\ th' = [th EXCEPT ![r] = idleThread]
    /\ UNCHANGED <<args, result, impl, poolKeys, lock, chann, status, served>>
    /\ UNCHANGED slotVars

\* the recycler, line 147: receive from r.signal
Receive(s) ==
    /\ impl \in {"slots", "locked", "old"}
    /\ recycler[s].pc = "idle"
    /\ signal[s] = 1
    /\ signal' = [signal EXCEPT ![s] = 0]
    /\ recycler' = [recycler EXCEPT ![s].pc = "min"]
    /\ UNCHANGED <<args, result, impl, poolKeys, lock, chann, cursor, current, counter, state, th>>
    /\ UNCHANGED handleVars

\* line 148, left operand: r.state.Min() > recycleThreshold
tooHealthy(min) == min > RecycleThreshold

\* line 148, right operand: atomic.LoadInt64(&r.counter) < minReqsBeforeRecycle
tooYoung(n) == n < MinReqsBeforeRecycle

\* the recycler, line 148: evaluate r.state.Min()
EvalMin(s) ==
    /\ recycler[s].pc = "min"
    /\ recycler' = [recycler EXCEPT ![s].pc = IF tooHealthy(Min(state[s])) THEN "idle" ELSE "cnt"]
    /\ UNCHANGED <<args, result, impl, poolKeys, lock, chann, cursor, current, counter, state, signal, th>>
    /\ UNCHANGED handleVars

\* the recycler, line 148: load the counter
EvalCounter(s) ==
    /\ recycler[s].pc = "cnt"
    /\ recycler' = [recycler EXCEPT ![s].pc = IF tooYoung(counter[s]) THEN "idle" ELSE "swap"]
    /\ UNCHANGED <<args, result, impl, poolKeys, lock, chann, cursor, current, counter, state, signal, th>>
    /\ UNCHANGED handleVars

\* mutant of Swap: the drain and the close are left to nobody and the
\* recycler goes back to the signal at once
SwapDetached(s) ==
    /\ impl # "locked"
    /\ recycler[s].pc = "swap"
    /\ LET new == FreshHandle IN
        /\ recycler' = [recycler EXCEPT ![s] =
                            [pc |-> "idle", previous |-> current[s],
                             contended |-> activeCount[current[s]] > 0]]
        /\ current' = [current EXCEPT ![s] = new]
        /\ counter' = [counter EXCEPT ![s] = 0]
        /\ status' = [status EXCEPT ![new] = "open"]
        /\ activeCount' = [activeCount EXCEPT ![new] = 0]
        /\ served' = [served EXCEPT ![s] = 0]
    /\ UNCHANGED <<args, result, impl, poolKeys, lock, chann, cursor, state, signal, th>>

\* the recycler, lines 153-159: the swap under the lock
Swap(s) ==
    /\ impl # "locked"
    /\ recycler[s].pc = "swap"
    /\ LET new == FreshHandle IN
        /\ recycler' = [recycler EXCEPT ![s] =
                            [pc |-> "wait", previous |-> current[s],
                             contended |-> activeCount[current[s]] > 0]]
        /\ current' = [current EXCEPT ![s] = new]
        /\ counter' = [counter EXCEPT ![s] = 0]
        /\ status' = [status EXCEPT ![new] = "open"]
        /\ activeCount' = [activeCount EXCEPT ![new] = 0]
        /\ served' = [served EXCEPT ![s] = 0]
    /\ UNCHANGED <<args, result, impl, poolKeys, lock, chann, cursor, state, signal, th>>

\* mutant of drained: the recycler closes without waiting for the drain
drainedWithoutWait(h) == TRUE

\* line 162: previousActiveCount.Wait() returns once the counter is zero
drained(h) == activeCount[h] = 0

\* the recycler, line 162
Wait(s) ==
    /\ recycler[s].pc = "wait"
    /\ drained(recycler[s].previous)
    /\ recycler' = [recycler EXCEPT ![s].pc = "close"]
    /\ UNCHANGED <<args, result, impl, poolKeys, lock, chann, cursor, current, counter, state, signal, th>>
    /\ UNCHANGED handleVars

\* the recycler, line 163: previous.CloseIdleConnections()
CloseIdle(s) ==
    /\ recycler[s].pc = "close"
    /\ status' = [status EXCEPT ![recycler[s].previous] = "closed"]
    /\ recycler' = [recycler EXCEPT ![s].pc = "idle"]
    /\ UNCHANGED <<args, result, impl, poolKeys, lock, chann, activeCount, served, th>>
    /\ UNCHANGED <<cursor, current, counter, state, signal>>

Next ==
    \/ \E r \in Threads : HostScopedRoundTrip(r)
    \/ \E r \in Threads : Capture(r)
    \/ \E r \in Threads : Exec(r)
    \/ \E r \in Threads : Count(r)
    \/ \E r \in Threads : Apply(r)
    \/ \E r \in Threads : PostSignal(r)
    \/ \E r \in Threads : Release(r)
    \/ \E s \in Slots : Receive(s)
    \/ \E s \in Slots : EvalMin(s)
    \/ \E s \in Slots : EvalCounter(s)
    \/ \E s \in Slots : Swap(s)
    \/ \E s \in Slots : Wait(s)
    \/ \E s \in Slots : CloseIdle(s)

Spec == Init /\ [][Next]_vars

\* the handle a caller's request is in flight on is being drained by a recycler
beingDrained(r) ==
    /\ th[r].pc = "exec"
    /\ \E s \in Slots : recycler[s].pc = "wait" /\ recycler[s].previous = th[r].tx

\* the recycler goroutine of every slot and the code of RoundTrip after the
\* transport returned are scheduled; a request on a handle that is being
\* drained returns
Fairness ==
    /\ \A s \in Slots :
         WF_vars(Receive(s) \/ EvalMin(s) \/ EvalCounter(s) \/ Swap(s) \/ Wait(s) \/ CloseIdle(s))
    /\ \A r \in Threads : WF_vars(Count(r) \/ Apply(r) \/ PostSignal(r) \/ Release(r))
    /\ \A r \in Threads : WF_vars(beingDrained(r) /\ Exec(r))

FairSpec == Init /\ [][Next]_vars /\ Fairness

(* ---------------- recyclableTransport, the lock spelled out ----------- *)
InitLocked ==
    /\ impl = "locked"
    /\ args = noCall
    /\ result = << >>
    /\ InitSlots

\* RoundTrip line 170: t.lock.Lock()
LockForCopy(r) ==
    /\ impl = "locked"
    /\ th[r].pc = "capture"
    /\ lock[th[r].slot] = << >>
    /\ lock' = [lock EXCEPT ![th[r].slot] = <<"caller", r>>]
    /\ th' = [th EXCEPT ![r].pc = "copy"]
    /\ UNCHANGED <<args, result, impl, poolKeys, chann>>
    /\ UNCHANGED slotVars
    /\ UNCHANGED handleVars

\* mutant of CopyLocked: the lock is kept until the deferred function
CopyLockedKeeping(r) ==
    /\ th[r].pc = "copy"
    /\ LET tx == current[th[r].slot] IN
        /\ activeCount' = [activeCount EXCEPT ![tx] = @ + 1]
        /\ th' = [th EXCEPT ![r].pc = "exec", ![r].tx = tx]
    /\ UNCHANGED <<args, result, impl, poolKeys, lock, chann, status, served>>
    /\ UNCHANGED slotVars

\* RoundTrip lines 171-174: copy current and the WaitGroup, Add(1), Unlock()
CopyLocked(r) ==
    /\ th[r].pc = "copy"
    /\ LET tx == current[th[r].slot] IN
        /\ activeCount' = [activeCount EXCEPT ![tx] = @ + 1]
        /\ th' = [th EXCEPT ![r].pc = "exec", ![r].tx = tx]
    /\ lock' = [lock EXCEPT ![th[r].slot] = << >>]
    /\ UNCHANGED <<args, result, impl, poolKeys, chann, status, served>>
    /\ UNCHANGED slotVars

\* RoundTrip line 177, in the deferred function: t.lock.Lock()
LockForDone(r) ==
    /\ impl = "locked"
    /\ th[r].pc = "dec"
    /\ lock[th[r].slot] = << >>
    /\ lock' = [lock EXCEPT ![th[r].slot] = <<"caller", r>>]
    /\ th' = [th EXCEPT ![r].pc = "done"]
    /\ UNCHANGED <<args, result, impl, poolKeys, chann>>
    /\ UNCHANGED slotVars
    /\ UNCHANGED handleVars

\* RoundTrip lines 178-179 and 193: wg.Add(-1), Unlock(), return
DoneLocked(r) ==
    /\ th[r].pc = "done"
    /\ activeCount' = [activeCount EXCEPT ![th[r].tx] = @ - 1]
    /\ lock' = [lock EXCEPT ![th[r].slot] = << >>]
    /\ th' = [th EXCEPT ![r] = idleThread]
    /\ UNCHANGED <<args, result, impl, poolKeys, chann, status, served>>
    /\ UNCHANGED slotVars

\* the recycler, line 153: r.lock.Lock()
LockForSwap(s) ==
    /\ impl = "locked"
    /\ recycler[s].pc = "swap"
    /\ lock[s] = << >>
    /\ lock' = [lock EXCEPT ![s] = <<"recycler">>]
    /\ recycler' = [recycler EXCEPT ![s].pc = "swapping"]
    /\ UNCHANGED <<args, result, impl, poolKeys, chann, cursor, current, counter, state, signal, th>>
    /\ UNCHANGED handleVars

\* the recycler, lines 154-159: the swap, Unlock()
SwapLocked(s) ==
    /\ recycler[s].pc = "swapping"
    /\ LET new == FreshHandle IN
        /\ recycler' = [recycler EXCEPT ![s] =
                            [pc |-> "wait", previous |-> current[s],
                             contended |-> activeCount[current[s]] > 0]]
        /\ current' = [current EXCEPT ![s] = new]
        /\ counter' = [counter EXCEPT ![s] = 0]
        /\ status' = [status EXCEPT ![new] = "open"]
        /\ activeCount' = [activeCount EXCEPT ![new] = 0]
        /\ served' = [served EXCEPT ![s] = 0]
    /\ lock' = [lock EXCEPT ![s] = << >>]
    /\ UNCHANGED <<args, result, impl, poolKeys, chann, cursor, state, signal, th>>

NextLocked ==
    \/ \E r \in Threads : HostScopedRoundTrip(r)
    \/ \E r \in Threads : LockForCopy(r)
    \/ \E r \in Threads : CopyLocked(r)
    \/ \E r \in Threads : Exec(r)
    \/ \E r \in Threads : Count(r)
    \/ \E r \in Threads : Apply(r)
    \/ \E r \in Threads : PostSignal(r)
    \/ \E r \in Threads : LockForDone(r)
    \/ \E r \in Threads : DoneLocked(r)
    \/ \E s \in Slots : Receive(s)
    \/ \E s \in Slots : EvalMin(s)
    \/ \E s \in Slots : EvalCounter(s)
    \/ \E s \in Slots : LockForSwap(s)
    \/ \E s \in Slots : SwapLocked(s)
    \/ \E s \in Slots : Wait(s)
    \/ \E s \in Slots : CloseIdle(s)

SpecLocked == InitLocked /\ [][NextLocked]_vars

(* -------- recyclableTransport, the variant of New(transport, host, ...) ------- *)
\* the host argument of New (line 324), kept by every slot (line 363)
OldHost == <<"h", ":", "4">>

InitOld ==
    /\ impl = "old"
    /\ args = noCall
    /\ result = << >>
    /\ InitSlots

\* transportPool.RoundTrip lines 345-347 and RoundTrip lines 394-396: the cursor
\* advances, then the slot compares req.URL.Host with its host
OldRoundTrip(r) ==
    /\ impl = "old"
    /\ th[r].pc = "idle"
    /\ cursor < MaxRequests
    /\ cursor' = AddInt64(cursor, 1)
    /\ \E u \in RequestHosts :
        \/ /\ u # OldHost
           /\ th' = [th EXCEPT ![r] = [idleThread EXCEPT !.err = "not supported"]]
        \/ /\ u = OldHost
           /\ th' = [th EXCEPT ![r] = [pc |-> "capture", slot |-> slotIndex(cursor'),
                                       tx |-> 0, resp |-> NoResp, err |-> Nil, got |-> << >>,
                                       ctxDone |-> FALSE]]
    /\ UNCHANGED <<args, result, impl, poolKeys, lock, chann, current, counter, state, signal, recycler>>
    /\ UNCHANGED handleVars

\* RoundTrip lines 398-401: tx and wg are copied under the lock; the
\* WaitGroup is not touched
CopyCurrent(r) ==
    /\ impl = "old"
    /\ th[r].pc = "capture"
    /\ th' = [th EXCEPT ![r].pc = "add", ![r].tx = current[th[r].slot]]
    /\ UNCHANGED <<args, result, impl, poolKeys, lock, chann>>
    /\ UNCHANGED slotVars
    /\ UNCHANGED handleVars

\* RoundTrip line 403: wg.Add(1), after the unlock
AddActive(r) ==
    /\ th[r].pc = "add"
    /\ activeCount' = [activeCount EXCEPT ![th[r].tx] = @ + 1]
    /\ th' = [th EXCEPT ![r].pc = "exec"]
    /\ UNCHANGED <<args, result, impl, poolKeys, lock, chann, status, served>>
    /\ UNCHANGED slotVars

NextOld ==
    \/ \E r \in Threads : OldRoundTrip(r)
    \/ \E r \in Threads : CopyCurrent(r)
    \/ \E r \in Threads : AddActive(r)
    \/ \E r \in Threads : Exec(r)
    \/ \E r \in Threads : Count(r)
    \/ \E r \in Threads : Apply(r)
    \/ \E r \in Threads : PostSignal(r)
    \/ \E r \in Threads : Release(r)
    \/ \E s \in Slots : Receive(s)
    \/ \E s \in Slots : EvalMin(s)
    \/ \E s \in Slots : EvalCounter(s)
    \/ \E s \in Slots : Swap(s)
    \/ \E s \in Slots : Wait(s)
    \/ \E s \in Slots : CloseIdle(s)

SpecOld == InitOld /\ [][NextOld]_vars

(* --------------------------- accept policy ---------------------------- *)
\* mutant of AcceptedRequestTargetAtHost: the port is not compared
AcceptedIgnoringPort(host, port, u) == Hostname(u) = host

\* AcceptedRequestTargetAtHost(host, port)(request), u is request.URL.Host
AcceptedRequestTargetAtHost(host, port, u) ==
    Hostname(u) = host /\ (Port(u) = << >> \/ port = Port(u))

\* all strings over the alphabet S of length at most n
StringsUpTo(S, n) == UNION {[1..k -> S] : k \in 0..n}

\* length of the request hosts and of Options.Host that are enumerated
MaxHostLen == 3

PolicyHosts == {<<"h">>, <<"g">>}
PolicyPorts == {<< >>, <<"4">>, <<"5">>}
UrlHosts == StringsUpTo({"h", "g", ":", "4", "5"}, MaxHostLen)

InitAccept ==
    /\ impl = "none"
    /\ args \in [fn : {"accept"}, host : PolicyHosts, port : PolicyPorts, u : UrlHosts]
    /\ result = << >>
    /\ InitSlots

\* one call of the policy returned by AcceptedRequestTargetAtHost
CallAccept ==
    /\ args.fn = "accept"
    /\ result = << >>
    /\ result' = <<AcceptedRequestTargetAtHost(args.host, args.port, args.u)>>
    /\ UNCHANGED <<args, impl, poolKeys, lock, chann, th>>
    /\ UNCHANGED slotVars
    /\ UNCHANGED handleVars

NextAccept == CallAccept

SpecAccept == InitAccept /\ [][NextAccept]_vars

(* ------------------------- transportChannPool ------------------------ *)
\* KillBeforeThrottledPolicy.ShouldDropTransport; a nil header has no names
ShouldDropTransport(threshold, header) ==
    \E k \in DOMAIN header :
        /\ HasPrefix(k, rateLimitHeaderPrefix)
        /\ ParseIntOK(header[k])
        /\ ParseInt(header[k]) < threshold

\* New (channel-pool realization): the accept policy's host and port
chanPolicy ==
    LET sp == SplitHostPort(defaultedHost(PoolOptions.Host))
    IN  [host |-> orDefault(sp.host, DefaultHost), port |-> orDefault(sp.port, DefaultPort)]

\* the pool built by the channel-pool realization of New; nothing runs yet
InitChan ==
    /\ impl = "chan"
    /\ args = noCall
    /\ result = << >>
    /\ chann = newChann
    /\ lock = [s \in Slots |-> << >>]
    /\ poolKeys = {}
    /\ cursor = 0
    /\ current = [s \in Slots |-> 0]
    /\ counter = [s \in Slots |-> 0]
    /\ state = [s \in Slots |-> newConnState]
    /\ signal = [s \in Slots |-> 0]
    /\ recycler = [s \in Slots |-> idleRecycler]
    /\ status = [h \in Handles |-> "free"]
    /\ activeCount = [h \in Handles |-> 0]
    /\ served = [s \in Slots |-> 0]
    /\ th = [r \in Threads |-> idleThread]

\* what no step of the channel pool writes; a panic in any goroutine has
\* ended the process
chanFrame ==
    /\ ~chann.panicked
    /\ UNCHANGED <<args, result, impl, poolKeys, lock, activeCount, served>>
    /\ UNCHANGED slotVars

\* the caller of Run starts it (transport_pool_test.go line 25)
RunStart ==
    /\ impl = "chan"
    /\ chann.run.pc = "notStarted"
    /\ chann' = [chann EXCEPT !.run.pc = "select"]
    /\ UNCHANGED <<status, th>>
    /\ chanFrame

\* the context passed to Run is cancelled
CancelRun ==
    /\ impl = "chan"
    /\ chann.run.pc # "notStarted"
    /\ ~chann.ctxDone
    /\ chann' = [chann EXCEPT !.ctxDone = TRUE]
    /\ UNCHANGED <<status, th>>
    /\ chanFrame

\* mutant of RunSelect: the producer creates a transport without a token
RunSelectWithoutToken ==
    /\ chann.run.pc = "select"
    /\ \/ /\ chann.ctxDone
          /\ chann' = [chann EXCEPT !.run.pc = "closeCapacity"]
          /\ UNCHANGED status
       \/ /\ chann.capacity < PoolSize
          /\ LET t == FreshHandle IN
              /\ chann' = [chann EXCEPT !.run = [pc |-> "send", t |-> t]]
              /\ status' = [status EXCEPT ![t] = "open"]
    /\ UNCHANGED th
    /\ chanFrame

\* Run lines 53-58: the select of the producer loop
RunSelect ==
    /\ chann.run.pc = "select"
    /\ \/ /\ chann.ctxDone
          /\ chann' = [chann EXCEPT !.run.pc = "closeCapacity"]
          /\ UNCHANGED status
       \/ /\ chann.capacity < PoolSize
          /\ LET t == FreshHandle IN
              /\ chann' = [chann EXCEPT !.capacity = @ + 1,
                                         !.run = [pc |-> "send", t |-> t]]
              /\ status' = [status EXCEPT ![t] = "open"]
    /\ UNCHANGED th
    /\ chanFrame

\* Run line 57: the send of the new transport on pool.pool
RunSend ==
    /\ chann.run.pc = "send"
    /\ Len(chann.pool) < PoolSize
    /\ chann' = [chann EXCEPT !.pool = Append(@, chann.run.t),
                               !.run = [pc |-> "select", t |-> 0]]
    /\ UNCHANGED <<status, th>>
    /\ chanFrame

\* Run lines 62-68: close(pool.capacity), start the goroutine that waits
RunCloseCapacity ==
    /\ chann.run.pc = "closeCapacity"
    /\ chann' = [chann EXCEPT !.capacityClosed = TRUE, !.waiter = "wait",
                               !.run.pc = "range"]
    /\ UNCHANGED <<status, th>>
    /\ chanFrame

\* Run line 65: pool.Wait() returns when the WaitGroup counter is zero
WaiterWait ==
    /\ chann.waiter = "wait"
    /\ chann.wg = 0
    /\ chann' = [chann EXCEPT !.waiter = "close"]
    /\ UNCHANGED <<status, th>>
    /\ chanFrame

\* Run line 66: close(pool.pool)
WaiterClose ==
    /\ chann.waiter = "close"
    /\ chann' = [chann EXCEPT !.poolClosed = TRUE, !.waiter = "done"]
    /\ UNCHANGED <<status, th>>
    /\ chanFrame

\* Run lines 69-75: range over pool.pool, one closing goroutine per transport
RunRange ==
    /\ chann.run.pc = "range"
    /\ \/ /\ chann.pool # << >>
          /\ chann' = [chann EXCEPT !.pool = Tail(@),
                                     !.closing = @ \cup {Head(chann.pool)}]
       \/ /\ chann.pool = << >>
          /\ chann.poolClosed
          /\ chann' = [chann EXCEPT !.run.pc = "wait"]
    /\ UNCHANGED <<status, th>>
    /\ chanFrame

\* Run line 72: transport.CloseIdleConnections() in its goroutine
CloserRun(t) ==
    /\ t \in chann.closing
    /\ chann' = [chann EXCEPT !.closing = @ \ {t}]
    /\ status' = [status EXCEPT ![t] = "closed"]
    /\ UNCHANGED th
    /\ chanFrame

\* Run line 76: errGroup.Wait() returns, Run returns nil
RunReturn ==
    /\ chann.run.pc = "wait"
    /\ chann.waiter = "done"
    /\ chann.closing = {}
    /\ chann' = [chann EXCEPT !.run.pc = "returned"]
    /\ UNCHANGED <<status, th>>
    /\ chanFrame

\* transportChannPool.RoundTrip lines 80-84: the accept policy
ChannRoundTrip(r) ==
    /\ impl = "chan"
    /\ th[r].pc = "idle"
    /\ \E u \in RequestHosts :
        \/ /\ ~AcceptedRequestTargetAtHost(chanPolicy.host, chanPolicy.port, u)
           /\ th' = [th EXCEPT ![r] = [idleThread EXCEPT !.err = "not supported"]]
           /\ UNCHANGED chann
        \/ /\ AcceptedRequestTargetAtHost(chanPolicy.host, chanPolicy.port, u)
           /\ chann.issued < MaxRequests
           /\ chann' = [chann EXCEPT !.issued = @ + 1]
           /\ th' = [th EXCEPT ![r] = [idleThread EXCEPT !.pc = "select"]]
    /\ UNCHANGED status
    /\ chanFrame

\* the caller cancels the context of its request while it waits for a handle
CancelRequest(r) ==
    /\ th[r].pc = "select"
    /\ ~th[r].ctxDone
    /\ th' = [th EXCEPT ![r].ctxDone = TRUE]
    /\ UNCHANGED <<status, chann>>
    /\ chanFrame

\* mutant of SelectTransport: a cancelled request takes the handle at the head
\* of the queue with it
SelectTransportTaking(r) ==
    /\ th[r].pc = "select"
    /\ \/ /\ chann.pool # << >>
          /\ chann' = [chann EXCEPT !.pool = Tail(@)]
          /\ th' = [th EXCEPT ![r].pc = "cexec", ![r].tx = Head(chann.pool)]
       \/ /\ chann.pool = << >>
          /\ chann.poolClosed
          /\ th' = [th EXCEPT ![r] = [idleThread EXCEPT !.err = "ErrServerClosed"]]
          /\ UNCHANGED chann
       \/ /\ th[r].ctxDone
          /\ th' = [th EXCEPT ![r] = [idleThread EXCEPT !.err = "ErrServerClosed"]]
          /\ chann' = [chann EXCEPT !.pool = IF @ = << >> THEN @ ELSE Tail(@)]
    /\ UNCHANGED status
    /\ chanFrame

\* mutant of SelectTransport: the handle at the head of the queue is read
\* and left in the queue
SelectTransportPeeking(r) ==
    /\ th[r].pc = "select"
    /\ \/ /\ chann.pool # << >>
          /\ th' = [th EXCEPT ![r].pc = "cexec", ![r].tx = Head(chann.pool)]
          /\ UNCHANGED chann
       \/ /\ chann.pool = << >>
          /\ chann.poolClosed
          /\ th' = [th EXCEPT ![r] = [idleThread EXCEPT !.err = "ErrServerClosed"]]
          /\ UNCHANGED chann
       \/ /\ th[r].ctxDone
          /\ th' = [th EXCEPT ![r] = [idleThread EXCEPT !.err = "ErrServerClosed"]]
          /\ UNCHANGED chann
    /\ UNCHANGED status
    /\ chanFrame

\* selectTransport lines 99-111: the select takes any case that is ready
SelectTransport(r) ==
    /\ th[r].pc = "select"
    /\ \/ /\ chann.pool # << >>
          /\ chann' = [chann EXCEPT !.pool = Tail(@)]
          /\ th' = [th EXCEPT ![r].pc = "cexec", ![r].tx = Head(chann.pool)]
       \/ /\ chann.pool = << >>
          /\ chann.poolClosed
          /\ th' = [th EXCEPT ![r] = [idleThread EXCEPT !.err = "ErrServerClosed"]]
          /\ UNCHANGED chann
       \/ /\ th[r].ctxDone
          /\ th' = [th EXCEPT ![r] = [idleThread EXCEPT !.err = "ErrServerClosed"]]
          /\ UNCHANGED chann
    /\ UNCHANGED status
    /\ chanFrame

\* RoundTrip line 88: transport.RoundTrip(req) returns
ChannExec(r) ==
    /\ th[r].pc = "cexec"
    /\ \E res \in TransportResults :
        th' = [th EXCEPT ![r].pc = "spawn", ![r].resp = res.resp, ![r].err = res.err]
    /\ UNCHANGED <<status, chann>>
    /\ chanFrame

\* RoundTrip lines 89-95: pool.Add(1), go pool.recycleTransport, return
ChannSpawn(r) ==
    /\ th[r].pc = "spawn"
    /\ chann' = [chann EXCEPT
            !.wg = @ + 1,
            !.recycling = @ \cup {[t |-> th[r].tx, pc |-> "policy",
                                   header |-> IF th[r].resp = NoResp THEN << >>
                                              ELSE th[r].resp[1]]}]
    /\ th' = [th EXCEPT ![r] = idleThread]
    /\ UNCHANGED status
    /\ chanFrame

\* recycleTransport lines 116-122: the drop policies; a drop closes a clone
RecyclePolicy(g) ==
    /\ g \in chann.recycling
    /\ g.pc = "policy"
    /\ IF ShouldDropTransport(RecycleThreshold, g.header)
       THEN /\ chann' = [chann EXCEPT !.recycling = (@ \ {g}) \cup {[g EXCEPT !.pc = "token"]}]
            /\ status' = [status EXCEPT ![g.t] = "dropped"]
       ELSE /\ chann' = [chann EXCEPT !.recycling = (@ \ {g}) \cup {[g EXCEPT !.pc = "send"]}]
            /\ UNCHANGED status
    /\ UNCHANGED th
    /\ chanFrame

\* recycleTransport lines 119-120 and 115: <-pool.capacity, then pool.Done()
RecycleToken(g) ==
    /\ g \in chann.recycling
    /\ g.pc = "token"
    /\ chann.capacity > 0 \/ chann.capacityClosed
    /\ chann' = [chann EXCEPT !.capacity = IF @ > 0 THEN @ - 1 ELSE @,
                               !.recycling = @ \ {g}, !.wg = @ - 1]
    /\ UNCHANGED <<status, th>>
    /\ chanFrame

\* recycleTransport lines 123 and 115: pool.pool <- t, then pool.Done();
\* a send on a closed channel panics
RecycleSend(g) ==
    /\ g \in chann.recycling
    /\ g.pc = "send"
    /\ \/ /\ chann.poolClosed
          /\ chann' = [chann EXCEPT !.panicked = TRUE, !.recycling = @ \ {g}]
       \/ /\ ~chann.poolClosed
          /\ Len(chann.pool) < PoolSize
          /\ chann' = [chann EXCEPT !.pool = Append(@, g.t),
                                     !.recycling = @ \ {g}, !.wg = @ - 1]
    /\ UNCHANGED <<status, th>>
    /\ chanFrame

NextChan ==
    \/ RunStart
    \/ CancelRun
    \/ RunSelect
    \/ RunSend
    \/ RunCloseCapacity
    \/ WaiterWait
    \/ WaiterClose
    \/ RunRange
    \/ \E t \in Handles : CloserRun(t)
    \/ RunReturn
    \/ \E r \in Threads : ChannRoundTrip(r)
    \/ \E r \in Threads : CancelRequest(r)
    \/ \E r \in Threads : SelectTransport(r)
    \/ \E r \in Threads : ChannExec(r)
    \/ \E r \in Threads : ChannSpawn(r)
    \/ \E g \in chann.recycling : RecyclePolicy(g)
    \/ \E g \in chann.recycling : RecycleToken(g)
    \/ \E g \in chann.recycling : RecycleSend(g)

SpecChan == InitChan /\ [][NextChan]_vars

\* the goroutines of the channel pool are scheduled: Run, the goroutine that
\* waits for the WaitGroup, the closing goroutines, the recycle goroutines and
\* the callers' code after the transport returned
FairnessChan ==
    /\ WF_vars(RunSelect \/ RunSend \/ RunCloseCapacity \/ RunRange \/ RunReturn)
    /\ WF_vars(WaiterWait \/ WaiterClose)
    /\ \A t \in Handles : WF_vars(CloserRun(t))
    /\ WF_vars(\E g \in chann.recycling :
                  RecyclePolicy(g) \/ RecycleToken(g) \/ RecycleSend(g))
    /\ \A r \in Threads : WF_vars(ChannSpawn(r))

FairSpecChan == InitChan /\ [][NextChan]_vars /\ FairnessChan

\* the callers are scheduled as well: a caller waiting in selectTransport
\* takes a case that stays ready, and every transport.RoundTrip returns
FairnessRequests ==
    /\ \A r \in Threads : WF_vars(SelectTransport(r))
    /\ \A r \in Threads : WF_vars(ChannExec(r))

FairSpecRequests == InitChan /\ [][NextChan]_vars /\ FairnessChan /\ FairnessRequests

\* either realization of New
InitAny == Init \/ InitChan

NextAny == Next \/ NextChan

SpecAny == InitAny /\ [][NextAny]_vars

(* ------------------------------ router -------------------------------- *)
pureFrame ==
    /\ UNCHANGED <<args, impl, poolKeys, lock, chann, th>>
    /\ UNCHANGED slotVars
    /\ UNCHANGED handleVars

\* the key sets of hostScopedTransport.pool that are enumerated
RouterKeySets ==
    { {<<"h", ":", "4">>}, {<<"h", ":", "4">>, <<"g", ":", "4">>},
      {<<"h", ":">>}, {<<"H", ":", "4">>} }
RouterUrls == StringsUpTo({"h", "H", "g", ":", "4"}, MaxHostLen)

InitRouter ==
    /\ impl = "none"
    /\ args \in [fn : {"compareHosts"}, keys : RouterKeySets, u : RouterUrls]
    /\ result = << >>
    /\ InitSlots

\* one call of hostScopedTransport.compareHosts
CallCompareHosts ==
    /\ args.fn = "compareHosts"
    /\ result = << >>
    /\ result' = <<compareHosts(args.keys, args.u)>>
    /\ pureFrame

NextRouter == CallCompareHosts

SpecRouter == InitRouter /\ [][NextRouter]_vars

(* ------------------------------- New ---------------------------------- *)
NewHosts == StringsUpTo({"h", ":", "4", "[", "]"}, MaxHostLen)
NewPoolSizes == {-1, 0, 1, 2}
NewFactories == {<< >>, <<{}>>, <<{<<"h", ":", "4">>, <<"g", ":", "4">>}>>}

InitNew ==
    /\ impl = "none"
    /\ args \in [fn : {"New"}, Host : NewHosts, PoolSize : NewPoolSizes,
                  TransportFactory : NewFactories]
    /\ result = << >>
    /\ InitSlots

\* one call of New
CallNew ==
    /\ args.fn = "New"
    /\ result = << >>
    /\ result' = <<New([Host |-> args.Host, PoolSize |-> args.PoolSize,
                        RecycleThreshold |-> 0, MinReqsBeforeRecycle |-> 0,
                        TransportFactory |-> args.TransportFactory])>>
    /\ pureFrame

NextNew == CallNew

SpecNew == InitNew /\ [][NextNew]_vars

(* ------------------------------ tracker ------------------------------- *)
TrackerKeys == { <<"R", "-", "t">>, <<"R", "-", "d">>, <<"r", "-", "t">>, <<"A">> }
TrackerValues == { <<"9">>, <<"1">>, <<"x">>, <<"-", "3">>, << >> }
TrackerHeaders == UNION {[D -> TrackerValues] : D \in SUBSET TrackerKeys}
TrackerStates ==
    { newConnState, (<<"t">> :> 7), (<<"t">> :> 3) @@ (<<"d">> :> 8) }

InitTracker ==
    /\ impl = "none"
    /\ args \in [fn : {"ApplyHeader"}, types : TrackerStates, h : TrackerHeaders]
    /\ result = << >>
    /\ InitSlots

\* connState.ApplyHeader on a tracker holding args.types, then connState.Min
CallApplyHeader ==
    /\ args.fn = "ApplyHeader"
    /\ result = << >>
    /\ LET types == ApplyHeader(args.types, args.h) IN
        result' = <<[types |-> types, min |-> Min(types)]>>
    /\ pureFrame

NextTracker == CallApplyHeader

SpecTracker == InitTracker /\ [][NextTracker]_vars

(* --------------------------- recycler test ---------------------------- *)
\* line 148: the condition under which the recycler skips the swap
skipsRecycle(types, n, threshold, minReqs) ==
    Min(types) > threshold \/ n < minReqs

\* the recycleThreshold values that are enumerated
EvalThresholds == {-1, 3, 7, 8, MaxInt64}

\* the trackers that are enumerated
EvalStates == TrackerStates \cup {(<<"t">> :> MaxInt64)}

InitEval ==
    /\ impl = "none"
    /\ args \in [fn : {"evaluate"}, types : EvalStates, n : 0..2,
                  threshold : EvalThresholds, minReqs : 1..2]
    /\ result = << >>
    /\ InitSlots

\* one pass of the recycler loop over a slot holding args.types and args.n
CallEvaluate ==
    /\ args.fn = "evaluate"
    /\ result = << >>
    /\ result' = <<IF skipsRecycle(args.types, args.n, args.threshold, args.minReqs)
                   THEN "continue" ELSE "swap">>
    /\ pureFrame

NextEval == CallEvaluate

SpecEval == InitEval /\ [][NextEval]_vars

(* ---------------------------- drop policy ----------------------------- *)
RECURSIVE dropLoopStopAtError(_, _, _)
\* mutant of dropLoop: a value that does not parse ends the loop
dropLoopStopAtError(threshold, header, order) ==
    IF order = << >> THEN FALSE
    ELSE LET key == Head(order) IN
         IF ~HasPrefix(key, rateLimitHeaderPrefix)
         THEN dropLoopStopAtError(threshold, header, Tail(order))
         ELSE IF ~ParseIntOK(header[key]) THEN FALSE
         ELSE IF ParseInt(header[key]) < threshold THEN TRUE
         ELSE dropLoopStopAtError(threshold, header, Tail(order))

RECURSIVE dropLoop(_, _, _)
\* KillBeforeThrottledPolicy.ShouldDropTransport lines 14-26: the range over
\* the header map visits the keys in the order the runtime picks
dropLoop(threshold, header, order) ==
    IF order = << >> THEN FALSE
    ELSE LET key == Head(order) IN
         IF ~HasPrefix(key, rateLimitHeaderPrefix)
         THEN dropLoop(threshold, header, Tail(order))
         ELSE IF ~ParseIntOK(header[key])
         THEN dropLoop(threshold, header, Tail(order))
         ELSE IF ParseInt(header[key]) < threshold THEN TRUE
         ELSE dropLoop(threshold, header, Tail(order))

\* the orders in which a range over a map with the keys S can visit them
Orders(S) ==
    {o \in [1..Cardinality(S) -> S] : \A i, j \in 1..Cardinality(S) : o[i] = o[j] => i = j}

DropValues == { <<"9">>, <<"5">>, <<"1">>, <<"x">> }
DropHeaders == UNION {[D -> DropValues] : D \in SUBSET TrackerKeys}
DropThresholds == {5, 2}

InitDrop ==
    /\ impl = "none"
    /\ \E h \in DropHeaders : \E o \in Orders(DOMAIN h) : \E t \in DropThresholds :
         args = [fn |-> "ShouldDropTransport", h |-> h, order |-> o, threshold |-> t]
    /\ result = << >>
    /\ InitSlots

\* (&KillBeforeThrottledPolicy{args.threshold}).ShouldDropTransport(args.h)
CallShouldDrop ==
    /\ args.fn = "ShouldDropTransport"
    /\ result = << >>
    /\ result' = <<dropLoop(args.threshold, args.h, args.order)>>
    /\ pureFrame

NextDrop == CallShouldDrop

SpecDrop == InitDrop /\ [][NextDrop]_vars

(* ----------------------------- dispatch ------------------------------- *)
\* the number of consecutive transportPool.RoundTrip calls that are followed
MaxDispatches == 6

\* the values of transportPool.cursor the calls start from
DispatchStarts == {0, 1, 2, 5} \cup {MaxInt64 - d : d \in 1..4}

InitDispatch ==
    /\ impl = "none"
    /\ args \in [fn : {"dispatch"}, start : DispatchStarts, n : 1..3]
    /\ result = << >>
    /\ InitSlots

\* transportPool.RoundTrip lines 119-120 on a pool of args.n slots: the atomic
\* add, the conversion and the remainder, then the index into t.pool, which
\* panics when it is negative
Dispatch ==
    /\ args.fn = "dispatch"
    /\ LET cur == IF result = << >>
                  THEN [cursor |-> args.start, hits |-> << >>, panicked |-> FALSE]
                  ELSE result[1]
           c   == AddInt64(cur.cursor, 1)
           i   == GoMod(c, args.n)
       IN  /\ ~cur.panicked
           /\ Len(cur.hits) < MaxDispatches
           /\ result' = <<[cursor |-> c,
                           hits |-> IF i < 0 THEN cur.hits ELSE Append(cur.hits, i),
                           panicked |-> i < 0]>>
    /\ pureFrame

NextDispatch == Dispatch

SpecDispatch == InitDispatch /\ [][NextDispatch]_vars

(* ------------------------- host comparison ---------------------------- *)
\* getTransportHostToCompare
getTransportHostToCompare(reqHost, transportHost) ==
    LET idx  == Index(reqHost, ":")
        idx1 == Index(transportHost, ":")
    IN  IF idx = idx1 THEN transportHost
        ELSE IF idx # -1 THEN transportHost \o Slice(reqHost, idx, Len(reqHost))
        ELSE Slice(transportHost, 0, idx1)

\* length of the host names that are enumerated
MaxNameLen == 2

\* the hosts the function is called with: a name, with or without a port
CompareHosts ==
    {name \o port : name \in StringsUpTo({"h", "g"}, MaxNameLen) \ {<< >>},
                    port \in {<< >>, <<":", "4">>, <<":", "5">>}}

InitCompare ==
    /\ impl = "none"
    /\ args \in [fn : {"compare"}, reqHost : CompareHosts, transportHost : CompareHosts]
    /\ result = << >>
    /\ InitSlots

CallCompare ==
    /\ args.fn = "compare"
    /\ result = << >>
    /\ result' = <<getTransportHostToCompare(args.reqHost, args.transportHost)>>
    /\ pureFrame

NextCompare == CallCompare

SpecCompare == InitCompare /\ [][NextCompare]_vars

(* ------------------------------ claims -------------------------------- *)
\* C1  Drain safety: no RoundTrip of a slot is between its capture of a handle
\*     and its deferred wg.Add(-1) once CloseIdleConnections has been called on
\*     that handle.
DrainSafety ==
    impl = "slots" =>
        \A r \in Threads : th[r].pc \in Holding => status[th[r].tx] = "open"

\* C1 witness: a handle was swapped out while requests held it, and has been
\*     closed after they drained
DrainSafetyWitness ==
    \E s \in Slots :
        /\ recycler[s].pc = "idle"
        /\ recycler[s].contended
        /\ status[recycler[s].previous] = "closed"

\* C2  Capacity (as claimed): the handles created and not yet closed, current
\*     and retired together, number at most PoolSize.
CapacityAtMostPoolSize ==
    impl = "slots" => Cardinality({h \in Handles : status[h] = "open"}) <= PoolSize

\* C3  Churn guard (as claimed): whenever the recycler swaps out a slot's current
\*     handle, at least MinReqsBeforeRecycle requests completed on that handle.
ChurnGuardPerHandle ==
    [][\A s \in Slots :
        current'[s] # current[s] => served[s] >= MinReqsBeforeRecycle]_vars

\* C6  The default accept policy accepts exactly the requests whose URL host is
\*     the configured host name alone, the host name with an empty port, or the
\*     host name with the configured port.
AcceptExactly ==
    (args.fn = "accept" /\ result # << >>) =>
        (result[1] <=>
            \/ args.u = args.host
            \/ args.u = args.host \o <<":">>
            \/ args.port # << >> /\ args.u = args.host \o <<":">> \o args.port)

\* C6 witness: a request to the configured host with another explicit port has
\*     been rejected
AcceptExactlyWitness ==
    /\ args.fn = "accept"
    /\ args.host = <<"h">> /\ args.port = <<"4">> /\ args.u = <<"h", ":", "5">>
    /\ result = <<FALSE>>

\* C7  Symmetry (as claimed): a request with explicit port P meets a policy
\*     configured with an empty port as a request with no port meets a policy
\*     configured with port P.
AbsentPortSymmetric ==
    (/\ args.fn = "accept" /\ result # << >>
     /\ args.port = << >>
     /\ Hostname(args.u) = args.host /\ Port(args.u) # << >>) =>
        result[1] = AcceptedRequestTargetAtHost(args.host, Port(args.u), args.host)

\* a request host that ends in ":" and digits carries a port
hasPortPart(u) ==
    \E i \in 1..Len(u) : u[i] = ":" /\ \A j \in (i + 1)..Len(u) : u[j] \in Digits

\* C8  The router finds a pool exactly when some key equals the lower-cased
\*     request host (hostname, ":" and port; a request without a port part gives
\*     the key hostname ":"), and then returns the pool under that key; hence
\*     H:4 is served by a router for h:4 and h alone is not.
RouterLookup ==
    (args.fn = "compareHosts" /\ result # << >>) =>
        LET key == IF hasPortPart(args.u) THEN ToLower(args.u)
                   ELSE ToLower(args.u) \o <<":">>
        IN  /\ result[1].err = Nil <=> key \in args.keys
            /\ result[1].err = Nil => result[1].pool = key
            /\ (args.keys = {<<"h", ":", "4">>} /\ args.u = <<"H", ":", "4">>)
                   => result[1].err = Nil
            /\ (args.keys = {<<"h", ":", "4">>} /\ args.u = <<"h">>)
                   => result[1].err # Nil

\* C8 witness: a request for H:4 was routed to the pool stored under h:4
RouterLookupWitness ==
    /\ args.fn = "compareHosts"
    /\ args.keys = {<<"h", ":", "4">>} /\ args.u = <<"H", ":", "4">>
    /\ result # << >> /\ result[1].pool = <<"h", ":", "4">>

\* what the claim expects of New for Options.Host: an absent port is an empty one
wantedOfHost(optsHost) ==
    LET hp == IF \E i \in 1..Len(optsHost) : optsHost[i] = ":"
              THEN optsHost ELSE optsHost \o <<":">>
        sp == SplitHostPort(hp)
    IN  [ok   |-> sp.err = Nil,
         host |-> IF sp.host = << >> THEN <<"m">> ELSE sp.host,
         port |-> IF sp.port = << >> THEN <<"4">> ELSE sp.port]

\* the factory map New works with is not empty
hasFactories(f) == f = << >> \/ f[1] # {}

\* C9  Construction (as claimed): New panics exactly when Options.Host cannot be
\*     split, otherwise it returns a round tripper and every factory call gets
\*     the resolved host and port.
NewFailsOnlyOnBadHost ==
    (args.fn = "New" /\ result # << >>) =>
        LET w == wantedOfHost(args.Host) IN
        /\ result[1].panicked <=> ~w.ok
        /\ \A c \in result[1].calls : c.host = w.host /\ c.port = w.port

\* C9  Construction (amended): as claimed, for a PoolSize that is not negative.
NewOutcome ==
    (args.fn = "New" /\ result # << >> /\ args.PoolSize >= 0) =>
        LET w == wantedOfHost(args.Host) IN
        /\ result[1].panicked <=> ~w.ok
        /\ \A c \in result[1].calls : c.host = w.host /\ c.port = w.port
        /\ (w.ok /\ hasFactories(args.TransportFactory)) => result[1].calls # {}

\* C9 witness: New was called with the host part empty and made its factory calls
NewOutcomeWitness ==
    /\ args.fn = "New" /\ args.Host = <<":", "4">> /\ args.PoolSize = 2
    /\ result # << >> /\ ~result[1].panicked
    /\ \E c \in result[1].calls : c.host = <<"m">> /\ c.port = <<"4">>

TrackerCats == {<<"t">>, <<"d">>}
wellFormed == (<<"9">> :> 9) @@ (<<"1">> :> 1) @@ (<<"-", "3">> :> (0 - 3))

\* C10 After ApplyHeader the tracker holds, per category, the value of the
\*     well-formed header of that category, else the value it held before, and
\*     nothing else; Min is the smallest value held.
TrackerRecords ==
    (args.fn = "ApplyHeader" /\ result # << >>) =>
        LET types == result[1].types
            h == args.h
        IN  /\ DOMAIN types \subseteq TrackerCats
            /\ \A c \in TrackerCats :
                LET k == <<"R", "-">> \o c IN
                IF k \in DOMAIN h /\ h[k] \in DOMAIN wellFormed
                THEN c \in DOMAIN types /\ types[c] = wellFormed[h[k]]
                ELSE IF c \in DOMAIN args.types
                THEN c \in DOMAIN types /\ types[c] = args.types[c]
                ELSE c \notin DOMAIN types
            /\ DOMAIN types # {} =>
                /\ \E c \in DOMAIN types : result[1].min = types[c]
                /\ \A c \in DOMAIN types : result[1].min <= types[c]

\* C10 witness: one header with the value 9 and one with a malformed value were
\*     applied to an empty tracker, and Min is 9
TrackerRecordsWitness ==
    /\ args.fn = "ApplyHeader"
    /\ args.types = newConnState
    /\ args.h = (<<"R", "-", "t">> :> <<"9">>) @@ (<<"R", "-", "d">> :> <<"x">>)
    /\ result # << >> /\ result[1].min = 9

\* a recorded quota category of slot s is below the recycle threshold
lowRecorded(s) == \E c \in DOMAIN state[s] : state[s][c] < RecycleThreshold

\* handle h is the current handle of slot s, has completed the minimum
\* number of requests and a recorded category is below the threshold
dueForRecycle(s, h) ==
    /\ current[s] = h
    /\ served[s] >= MinReqsBeforeRecycle
    /\ lowRecorded(s)

\* C4: under fair scheduling of the recyclers and of the callers' code after
\* the transport returned, and with requests on draining handles returning, a
\* current handle that completed at least minReqsBeforeRecycle requests while
\* some recorded category is below recycleThreshold is eventually swapped out
ThresholdTrigger ==
    \A s \in Slots : \A h \in Handles : dueForRecycle(s, h) ~> (current[s] # h)

\* the trigger as the code provides it: the handle is swapped out, or a later
\* response has raised every recorded category to the threshold or above
ThresholdTriggerWhileLow ==
    \A s \in Slots : \A h \in Handles :
        dueForRecycle(s, h) ~> (current[s] # h \/ ~lowRecorded(s))

\* C5: a RoundTrip that ends with the "not supported" error returns no
\* response, runs on no handle and changes nothing of the router's cursor,
\* the slots, the handles or the channel pool
RejectionTouchesNothing ==
    [][\A r \in Threads :
          (th[r].pc = "idle" /\ th'[r] # th[r] /\ th'[r].err = "not supported") =>
              /\ th'[r].pc = "idle"
              /\ th'[r].resp = NoResp
              /\ th'[r].tx = 0
              /\ UNCHANGED <<cursor, current, counter, state, signal, recycler>>
              /\ UNCHANGED <<status, activeCount, served, chann>>]_vars

\* a caller was rejected while another caller's request is on a handle
RejectionTouchesNothingWitness ==
    \E r \in Threads : \E q \in Threads :
        /\ th[r].pc = "idle"
        /\ th[r].err = "not supported"
        /\ th[q].pc \in {"exec", "cexec"}

\* C11 A slot whose tracker has recorded no category is not recycled, whatever
\*     recycleThreshold and whatever the number of served requests
NoDataNeverRecycles ==
    (args.fn = "evaluate" /\ result # << >> /\ args.types = newConnState) =>
        result[1] = "continue"

\* C12 ShouldDropTransport returns true exactly when some header with the
\*     rate-limit prefix has a first value that parses as an integer below
\*     RecycleThreshold, in whatever order the headers are visited
DropExactly ==
    (args.fn = "ShouldDropTransport" /\ result # << >>) =>
        (result[1] <=>
            \E k \in DOMAIN args.h :
                /\ HasPrefix(k, rateLimitHeaderPrefix)
                /\ ParseIntOK(args.h[k])
                /\ ParseInt(args.h[k]) < args.threshold)

\* C12 witness: the policy dropped on a value below the threshold that was
\*     visited after a prefixed value that does not parse and after a header
\*     without the prefix
DropExactlyWitness ==
    /\ args.fn = "ShouldDropTransport"
    /\ result = <<TRUE>>
    /\ args.threshold = 5
    /\ Len(args.order) = 3
    /\ HasPrefix(args.order[1], rateLimitHeaderPrefix)
    /\ args.h[args.order[1]] = <<"x">>
    /\ ~HasPrefix(args.order[2], rateLimitHeaderPrefix)
    /\ args.h[args.order[3]] = <<"1">>

\* C13 When a slot's RoundTrip returns, it returns the response and the error
\*     that tx.RoundTrip of the captured handle returned to it, whatever the
\*     recycler did in between; between the two the locals are not written
TransportResultPassedThrough ==
    [][\A r \in Threads :
          /\ (th[r].pc = "dec" /\ th'[r].pc = "idle") =>
                 /\ th[r].got # << >>
                 /\ returns(r) = th[r].got[1]
          /\ (th[r].pc \in {"count", "apply", "signal"}) =>
                 /\ th'[r].got = th[r].got
                 /\ th'[r].resp = th[r].resp
                 /\ th'[r].err = th[r].err]_vars

\* C13 witness: a call is about to return a transport error on a handle that
\*     the recycler swapped out and is waiting to drain
TransportResultPassedThroughWitness ==
    \E r \in Threads : \E s \in Slots :
        /\ th[r].pc = "dec"
        /\ th[r].err = "transport error"
        /\ recycler[s].pc = "wait"
        /\ recycler[s].previous = th[r].tx

\* C14 A request leaves its wait in the channel pool with the handle at the
\*     head of the ready queue, or with no response and ErrServerClosed, which
\*     is not the unsupported-destination error, and then only if its context
\*     is cancelled or the queue is closed and empty; with the error it holds
\*     no handle and the pool and the other callers are as before
WaitEndsWithHandleOrError ==
    [][\A r \in Threads :
          (th[r].pc = "select" /\ th'[r].pc # "select") =>
              \/ /\ th'[r].pc = "cexec"
                 /\ chann.pool # << >>
                 /\ th'[r].tx = Head(chann.pool)
              \/ /\ th'[r].pc = "idle"
                 /\ th'[r].resp = NoResp
                 /\ th'[r].tx = 0
                 /\ th'[r].err = "ErrServerClosed"
                 /\ th'[r].err # "not supported"
                 /\ th[r].ctxDone \/ (chann.poolClosed /\ chann.pool = << >>)
                 /\ UNCHANGED <<chann, status>>
                 /\ \A q \in Threads \ {r} : th'[q] = th[q]]_vars

\* C14 witness: a request ended its wait with the error while a handle was
\*     in the ready queue and another request was waiting
WaitEndsWithHandleOrErrorWitness ==
    \E r \in Threads : \E q \in Threads :
        /\ th[r].pc = "idle"
        /\ th[r].err = "ErrServerClosed"
        /\ th[q].pc = "select"
        /\ chann.pool # << >>
        /\ ~chann.poolClosed

\* C15 Once the context passed to Run is cancelled, Run eventually returns
\*     (with every goroutine of the pool scheduled fairly)
ShutdownTerminates == chann.ctxDone ~> (chann.run.pc = "returned")

\* C16 In the channel pool at most PoolSize handles that the factory created
\*     have not had CloseIdleConnections called on them
ChannCapacityAtMostPoolSize ==
    impl = "chan" =>
        Cardinality({h \in Handles : status[h] \in {"open", "dropped"}}) <= PoolSize

\* the slots that consecutive calls were sent to: no call failed, and every
\* n consecutive calls went to n different slots of 0..n-1
evenlyDispatched ==
    LET d == result[1] IN
        /\ ~d.panicked
        /\ \A j \in 1..Len(d.hits) : d.hits[j] \in 0..(args.n - 1)
        /\ \A j \in 1..Len(d.hits) : \A k \in 1..Len(d.hits) :
               (j < k /\ k - j < args.n) => d.hits[j] # d.hits[k]

\* C17 Round-robin: over any consecutive cursor values every request is sent
\*     to a slot, and every N consecutive requests go to N different slots
RoundRobin ==
    (args.fn = "dispatch" /\ result # << >>) => evenlyDispatched

\* the same for cursor values that stay below the largest int64
RoundRobinBelowWrap ==
    (args.fn = "dispatch" /\ result # << >> /\ args.start + MaxDispatches <= MaxInt64) =>
        evenlyDispatched

\* C18 When the recycler swaps the handle of a slot, the tracker of the slot
\*     is empty afterwards
SnapshotResetOnSwap ==
    [][\A s \in Slots : current'[s] # current[s] => state'[s] = newConnState]_vars

\* C19 The recycler swaps a slot that has recorded values only when the
\*     smallest of them is strictly below recycleThreshold
ExclusiveThreshold ==
    (args.fn = "evaluate" /\ result = <<"swap">> /\ args.types # newConnState) =>
        Min(args.types) < args.threshold

\* C20 The send on the signal channel is always possible and leaves a signal
\*     pending, at most one signal is pending, and a pending signal is
\*     eventually received by the recycler, whose evaluation then reads the
\*     counter and the tracker as the requests before the send left them
NoLostWakeup ==
    /\ [][\A r \in Threads :
             (th[r].pc = "signal" /\ th'[r].pc = "dec") => signal'[th[r].slot] = 1]_vars
    /\ [](\A r \in Threads : th[r].pc = "signal" => ENABLED PostSignal(r))
    /\ [](\A s \in Slots : signal[s] \in {0, 1})
    /\ \A s \in Slots : (signal[s] = 1) ~> (recycler[s].pc = "min")

\* C20 witness: a request that recorded a value is about to post while the
\*     signal of an earlier request is still pending, so its own is dropped
NoLostWakeupWitness ==
    \E r \in Threads :
        /\ th[r].pc = "signal"
        /\ th[r].resp # NoResp
        /\ signal[th[r].slot] = 1

\* C21 The lock of a slot is held only by a caller that is copying the handle
\*     or running its deferred decrement, or by the recycler inside the swap,
\*     and its holder can always go on to release it; never by a caller whose
\*     request is executing nor by a recycler that waits for the drain or
\*     closes. A caller that copies while the recycler drains or closes gets
\*     the new handle, and its request can execute
LockOnlyForCopyDoneSwap ==
    /\ [](\A s \in Slots :
            /\ lock[s] = <<"recycler">> =>
                   recycler[s].pc = "swapping" /\ ENABLED SwapLocked(s)
            /\ \A r \in Threads : lock[s] = <<"caller", r>> =>
                   /\ th[r].slot = s
                   /\ th[r].pc \in {"copy", "done"}
                   /\ ENABLED (CopyLocked(r) \/ DoneLocked(r)))
    /\ [](\A r \in Threads : th[r].pc = "exec" => ENABLED Exec(r))
    /\ [][\A r \in Threads :
             (th[r].pc = "copy" /\ th'[r].pc = "exec"
                  /\ recycler[th[r].slot].pc \in {"wait", "close"}) =>
                 /\ th'[r].tx = current[th[r].slot]
                 /\ th'[r].tx # recycler[th[r].slot].previous]_vars

\* C21 witness: a request executes on the new handle of a slot whose recycler
\*     is still waiting for a request on the previous handle
LockOnlyForCopyDoneSwapWitness ==
    \E r \in Threads : \E s \in Slots :
        /\ impl = "locked"
        /\ recycler[s].pc = "wait"
        /\ activeCount[recycler[s].previous] > 0
        /\ th[r].pc = "exec"
        /\ th[r].slot = s
        /\ th[r].tx = current[s]

\* C22: in the variant that calls wg.Add(1) after the unlock, the recycler
\* never finishes the drain of, or closes, a handle that a RoundTrip has
\* copied but not yet counted as in flight
CopyAndCountAtomic ==
    \A r \in Threads : th[r].pc = "add" =>
        /\ status[th[r].tx] = "open"
        /\ \A s \in Slots : recycler[s].pc = "close" => recycler[s].previous # th[r].tx

\* C22: a handle is closed while a RoundTrip that copied it has yet to count itself
CopiedHandleClosed ==
    \E r \in Threads : th[r].pc = "add" /\ status[th[r].tx] = "closed"

\* C23: the ready queue is closed only after every request in flight and its
\* recycle step have finished, so recycleTransport never sends a handle on
\* the ready queue after the queue was closed
QueueClosedAfterInFlight ==
    /\ [][(~chann.poolClosed /\ chann'.poolClosed) =>
            /\ chann.recycling = {}
            /\ \A r \in Threads : th[r].pc \notin {"cexec", "spawn"}]_vars
    /\ [](~chann.panicked)


\* handles that can still serve a request: in the ready queue, held by a
\* request, or on their way back to the queue
circulating ==
    Len(chann.pool)
        + Cardinality({r \in Threads : th[r].pc \in {"cexec", "spawn"}})
        + Cardinality({g \in chann.recycling : g.pc \in {"policy", "send"}})

\* a dropped handle is not in the ready queue and no request holds it
DroppedNeverReused ==
    \A h \in Handles : status[h] = "dropped" =>
        /\ \A i \in 1..Len(chann.pool) : chann.pool[i] # h
        /\ \A r \in Threads : th[r].pc \in {"cexec", "spawn"} => th[r].tx # h
        /\ \A g \in chann.recycling : g.t = h => g.pc = "token"

\* the recycle step of a dropped handle releases exactly one token and
\* enqueues nothing
OneTokenPerDrop ==
    [][\A g \in chann.recycling :
          (g.pc = "token" /\ g \notin chann'.recycling) =>
              /\ chann'.capacity = chann.capacity - 1
              /\ chann'.pool = chann.pool]_vars

\* while the producer runs, a replacement of a dropped handle is enqueued
ReplacementEnqueued ==
    (\E g \in chann.recycling : g.pc = "token")
        ~> (chann.ctxDone \/ (circulating = PoolSize /\ chann.run.pc = "select"))

\* the recycle step of a handle that is kept puts that handle at the back of
\* the ready queue and releases no token
KeptHandleRequeued ==
    [][\A g \in chann.recycling :
          (g.pc = "send" /\ g \notin chann'.recycling) =>
              /\ chann'.pool = Append(chann.pool, g.t)
              /\ chann'.capacity = chann.capacity]_vars

\* what the drop policy decides is what the recycle step does
PolicyDecides ==
    [][\A g \in chann.recycling :
          (g.pc = "policy" /\ g \notin chann'.recycling) =>
              \E pc \in {"token", "send"} :
                  /\ [g EXCEPT !.pc = pc] \in chann'.recycling
                  /\ pc = "token" <=> ShouldDropTransport(RecycleThreshold, g.header)]_vars

\* C24: when a drop policy returns true for the headers of a response, the
\* handle is never enqueued again nor handed to a request, exactly one token
\* is released and, while the producer runs, a replacement is enqueued; when
\* no policy returns true the same handle is enqueued again and no token is
\* released
DropProtocol ==
    /\ []DroppedNeverReused
    /\ PolicyDecides
    /\ OneTokenPerDrop
    /\ ReplacementEnqueued
    /\ KeptHandleRequeued


\* C25: the producer loop of the pool New returned is running: a request to
\* the accepted destination whose context is never cancelled eventually
\* receives a handle and executes on it
RequestObtainsHandle ==
    \A r \in Threads :
        (th[r].pc = "select") ~> (th[r].pc = "cexec" \/ th[r].ctxDone \/ chann.ctxDone)


\* the same once Run has been started by the caller
ServedOnceRunStarted ==
    \A r \in Threads :
        (th[r].pc = "select" /\ chann.run.pc # "notStarted")
            ~> (th[r].pc = "cexec" \/ th[r].ctxDone \/ chann.ctxDone)


\* both recycle conditions of line 148 hold for the slot
recycleConditions(s) == ~tooHealthy(Min(state[s])) /\ ~tooYoung(counter[s])

\* C26: a RoundTrip that got no response leaves the counter and the tracker
\* of its slot as they were, so it never makes the recycle conditions true
OnlyResponsesCount ==
    [][\A r \in Threads : \A s \in Slots :
          (th[r].pc \in {"count", "apply", "signal", "dec"} /\ th[r].resp = NoResp
              /\ th[r].slot = s /\ th'[r] # th[r]) =>
                /\ counter'[s] = counter[s]
                /\ state'[s] = state[s]
                /\ recycleConditions(s)' => recycleConditions(s)]_vars

\* a failed request that only must not change the tracker
FailedLeavesTracker ==
    [][\A r \in Threads :
          (th[r].pc \in {"count", "apply", "signal", "dec"} /\ th[r].resp = NoResp
              /\ th'[r] # th[r]) => state'[th[r].slot] = state[th[r].slot]]_vars


\* C27: the tracker records only non-negative values: a header whose value is
\* a negative integer is ignored, so every recorded value, and Min whenever
\* the tracker has data, is >= 0
TrackerNonNegative ==
    (args.fn = "ApplyHeader" /\ result # << >>) =>
        /\ \A c \in DOMAIN result[1].types : result[1].types[c] >= 0
        /\ result[1].types # newConnState => result[1].min >= 0


\* C28: every recycle finishes: once the recycler has swapped the handle of a
\* slot and the requests that captured the old handle return, the recycler
\* calls CloseIdleConnections on the old handle, once, and goes back to
\* waiting for the next signal
RecycleFinishes ==
    /\ \A s \in Slots :
          (recycler[s].pc = "wait")
              ~> (/\ recycler[s].pc = "idle"
                  /\ recycler[s].previous \in Handles
                  /\ status[recycler[s].previous] = "closed")
    /\ [][\A s \in Slots :
            /\ (recycler[s].pc = "wait" /\ recycler'[s].pc # "wait") =>
                  /\ recycler'[s] = [recycler[s] EXCEPT !.pc = "close"]
                  /\ status' = status
            /\ (recycler[s].pc = "close" /\ recycler'[s].pc # "close") =>
                  /\ status[recycler[s].previous] = "open"
                  /\ status' = [status EXCEPT ![recycler[s].previous] = "closed"]
                  /\ recycler'[s] = [recycler[s] EXCEPT !.pc = "idle"]]_vars
    /\ [](\A s \in Slots : \A x \in Slots :
            (s # x /\ recycler[s].pc \in {"wait", "close"} /\ recycler[x].pc \in {"wait", "close"})
                => recycler[s].previous # recycler[x].previous)

RecycleFinishesWitness ==
    \E s \in Slots :
        /\ impl = "slots"
        /\ recycler[s].pc = "idle"
        /\ recycler[s].contended
        /\ status[recycler[s].previous] = "closed"
        /\ recycler[s].previous # current[s]


\* the retired handles of a slot that are draining or awaiting their close
retired(s) == IF recycler[s].pc \in {"wait", "close"} THEN {recycler[s].previous} ELSE {}

\* C29: recycles of one slot never overlap: a slot has at most one retired
\* handle that is draining or awaiting its close, the unclosed handles are the
\* current and the retired ones of the slots, and a slot is swapped again only
\* after its retired handle has been closed
RecyclesNeverOverlap ==
    /\ [](\A s \in Slots :
            /\ Cardinality(retired(s)) <= 1
            /\ current[s] \notin retired(s)
            /\ \A x \in Slots \ {s} :
                  ({current[s]} \cup retired(s)) \cap ({current[x]} \cup retired(x)) = {})
    /\ []({h \in Handles : status[h] = "open"}
            = UNION {{current[s]} \cup retired(s) : s \in Slots})
    /\ [][\A s \in Slots :
            current'[s] # current[s] =>
                /\ retired(s) = {}
                /\ retired(s)' = {current[s]}]_vars

RecyclesNeverOverlapWitness ==
    \E s \in Slots :
        /\ impl = "slots"
        /\ recycler[s].pc = "wait"
        /\ recycler[s].contended
        /\ counter[s] >= MinReqsBeforeRecycle
        /\ signal[s] = 1
        /\ ~tooHealthy(Min(state[s]))


\* the handle a request holds between its receive from the ready queue and
\* the start of its recycle step
held ==
    [r \in Threads |-> IF th[r].pc \in {"cexec", "spawn"} THEN <<th[r].tx>> ELSE << >>]

\* C30: exclusive checkout: a handle is held by at most one request at a
\* time, a handle a request or its recycle step holds is not in the ready
\* queue, and no handle is in the ready queue twice
ExclusiveCheckout ==
    /\ \A r \in Threads : \A q \in Threads :
          (r # q /\ held[r] # << >>) => held[r] # held[q]
    /\ \A r \in Threads : \A i \in 1..Len(chann.pool) :
          held[r] # <<chann.pool[i]>>
    /\ \A g \in chann.recycling :
          /\ \A i \in 1..Len(chann.pool) : chann.pool[i] # g.t
          /\ \A r \in Threads : held[r] # <<g.t>>
          /\ \A k \in chann.recycling : k.t = g.t => k = g
    /\ \A i \in 1..Len(chann.pool) : \A j \in 1..Len(chann.pool) :
          i # j => chann.pool[i] # chann.pool[j]
    /\ \A t \in chann.closing :
          /\ \A r \in Threads : held[r] # <<t>>
          /\ \A g \in chann.recycling : g.t # t

ExclusiveCheckoutWitness ==
    /\ impl = "chan"
    /\ \E r \in Threads : \E q \in Threads :
          /\ r # q
          /\ th[r].pc = "cexec"
          /\ th[q].pc = "select"
          /\ chann.pool = << >>
          /\ \E g \in chann.recycling : g.pc = "send"


\* Run has not left the producer loop
beforeShutdown == chann.run.pc \in {"notStarted", "select", "send"}

\* handles that hold a token: the circulating ones, the one the producer has
\* created and not enqueued yet, and the dropped ones whose token is not
\* released yet
tokenHolders ==
    circulating
        + (IF chann.run.pc = "send" THEN 1 ELSE 0)
        + Cardinality({g \in chann.recycling : g.pc = "token"})

\* C31: token accounting: before shutdown the handles in the ready queue plus
\* the handles requests hold or whose recycle step is pending are at most the
\* tokens held, which are at most size; so the re-enqueue and the token
\* release of recycleTransport never block, and the producer creates a
\* handle only after it acquired a token
TokenAccounting ==
    /\ [](beforeShutdown =>
            /\ circulating <= chann.capacity
            /\ tokenHolders <= chann.capacity
            /\ chann.capacity <= PoolSize)
    /\ [](\A g \in chann.recycling :
            /\ (g.pc = "send" /\ ~chann.poolClosed) => Len(chann.pool) < PoolSize
            /\ g.pc = "token" => chann.capacity > 0)
    /\ [][\A h \in Handles :
            (status[h] # "open" /\ status'[h] = "open") =>
                /\ chann'.capacity = chann.capacity + 1
                /\ chann.capacity < PoolSize]_vars

TokenAccountingWitness ==
    /\ impl = "chan"
    /\ beforeShutdown
    /\ chann.capacity = PoolSize
    /\ Len(chann.pool) = PoolSize - 1
    /\ \E g \in chann.recycling : g.pc = "send"
    /\ \E h \in Handles : status[h] = "dropped"


\* C32: the slot index transportPool.RoundTrip computes is within
\* [0, len(pool)) for every value of the cursor, the values after the
\* wrap-around of the cursor included
IndexInRange ==
    (args.fn = "dispatch" /\ result # << >>) =>
        GoMod(result[1].cursor, args.n) \in 0..(args.n - 1)


\* the host has a port part
withPort(host) == Index(host, ":") # -1

\* the number of ":" in the host
colons(host) == Cardinality({i \in 1..Len(host) : host[i] = ":"})

\* C33: getTransportHostToCompare returns transportHost unchanged when both
\* hosts have a port or neither has, whatever the lengths of the names; with
\* reqHost's ":port" appended when only reqHost has a port; with its ":port"
\* removed when only transportHost has one; so the result has a port exactly
\* when reqHost has one, and never two
CompareHostPorts ==
    (args.fn = "compare" /\ result # << >>) =>
        LET req == args.reqHost
            tr  == args.transportHost
            out == result[1]
        IN  /\ withPort(req) = withPort(tr) => out = tr
            /\ (withPort(req) /\ ~withPort(tr)) =>
                  out = tr \o Slice(req, Index(req, ":"), Len(req))
            /\ (~withPort(req) /\ withPort(tr)) => out = Slice(tr, 0, Index(tr, ":"))
            /\ withPort(out) = withPort(req)
            /\ colons(out) <= 1

\* the same for two hosts whose names have the same length
CompareHostPortsEqualNames ==
    (args.fn = "compare" /\ result # << >>
        /\ (withPort(args.reqHost) /\ withPort(args.transportHost)
                => Index(args.reqHost, ":") = Index(args.transportHost, ":"))) =>
        LET req == args.reqHost
            tr  == args.transportHost
            out == result[1]
        IN  /\ withPort(req) = withPort(tr) => out = tr
            /\ (withPort(req) /\ ~withPort(tr)) =>
                  out = tr \o Slice(req, Index(req, ":"), Len(req))
            /\ (~withPort(req) /\ withPort(tr)) => out = Slice(tr, 0, Index(tr, ":"))
            /\ withPort(out) = withPort(req)
            /\ colons(out) <= 1

====
